---- MODULE Spec2Model ----
(***************************************************************************)
(* M5Stack GPS lap timer (src/src/main.cpp): the control cycle of setup(), *)
(* i.e. M5.update(); ReadGPS(); CountLAP(); with writeData() called from   *)
(* CountLAP, and the NMEA decoder TinyGPSPlus that ReadGPS feeds.          *)
(*                                                                         *)
(* Floats.  The C floats of the program (LAT0, LONG0, KMPH, TopSpeed,      *)
(* distanceToMeter0, LAPRAD, LAP, LAP1..LAP5, BestLap, Sprit, AverageLap)  *)
(* are kept exact as <<m, e>>, meaning m * 2^e with a 24-bit m, and every  *)
(* operation on them rounds to nearest, ties to even, as the hardware      *)
(* does.  BeforeTime holds a value of millis() converted to float; it is   *)
(* an integer and is kept as that integer (F32).  Not represented: the     *)
(* sign of a zero (-0.0f compares equal to 0.0f everywhere it is read) and *)
(* subnormal numbers.                                                      *)
(*                                                                         *)
(* Doubles.  A number read by atof is kept exact as <<m, k>>, meaning      *)
(* m / 10^k; a position is <<deg, mm, k>>, meaning                         *)
(* deg + (mm / 10^k) / 60 degrees; k = -1 marks the values that are no     *)
(* number.  The cast of such a value to float rounds the exact value, not  *)
(* the double nearest to it; the two agree on the numbers of the           *)
(* sentences below.                                                        *)
(*                                                                         *)
(* Inputs of a cycle.  The bytes Serial2 holds when ReadGPS starts, the    *)
(* three buttons as M5.update() sampled them, whether SD.open succeeds,    *)
(* and the values millis() returns: CountLAP calls it up to three times    *)
(* (main.cpp:462, 471, 472, or 462 and 485) and the clock may advance      *)
(* between two calls.  millis() does not wrap within the times modelled.   *)
(*                                                                         *)
(* Distance.  distanceBetween (main.cpp:75-89) needs sin, cos, sqrt and    *)
(* atan2; its values for the positions the model uses are tabulated from   *)
(* the function itself (Haversine).                                        *)
(*                                                                         *)
(* Decoder.  TinyGPSPlus::encode is modelled byte by byte on a stream of   *)
(* one-character strings.  A C string is the sequence of its characters    *)
(* before the NUL.  The bytes are CR, LF and the ASCII characters 32..126  *)
(* except 96.                                                              *)
(*                                                                         *)
(* Left out: the display (showvalue and the globals only it reads: LAT,    *)
(* LONG, ALTITUDE, SatVal), and the text of a record: a line of the file   *)
(* is kept as the values writeData prints, <<LapCount, LAP, TopSpeed,      *)
(* <<YEAR, MONTH, DAY, HOUR, MINUTE, SECOND>>>>.                           *)
(***************************************************************************)
EXTENDS Integers, Sequences, FiniteSets, TLC

VARIABLES
    millis,            \* the last value millis() returned
    BtnA,              \* M5.BtnA.isPressed() as sampled by M5.update() in this cycle
    BtnB,              \* M5.BtnB.isPressed() as sampled by M5.update() in this cycle
    BtnC,              \* M5.BtnC.isPressed() as sampled by M5.update() in this cycle
    YEAR, MONTH, DAY, HOUR, MINUTE, SECOND,
    LAT0, LONG0,
    KMPH, TopSpeed, distanceToMeter0,
    LAPRAD, LAPRADchange,
    LAPCOUNTNOW, LapCount, BeforeTime,
    LAP, LAP1, LAP2, LAP3, LAP4, LAP5,
    BestLap, BestLapNum, Sprit, AverageLap,
    sdFile,            \* lines appended to /LAP_log.csv: <<LapCount, LAP, TopSpeed, stamp>>
    fired,             \* the body of the if at main.cpp:460-463 ran in this cycle
    firedAt,           \* millis() at main.cpp:462 in the most recent fire (0 before any)
    prevFiredAt,       \* millis() at main.cpp:462 in the fire before that (0 before any)
    handed,            \* one <<LapCount, LAP>> per call of writeData(), in call order
    speedSince,        \* greatest KMPH sampled in the cycles after the most recent fire
    sinkBlind,         \* this cycle leaves the same core state whether or not SD.open succeeds
    holdFires,         \* fires in the cycles since BtnC was last sampled released
    stream,            \* the bytes Serial2 holds or held for the current ReadGPS, in order
    pos,               \* number of bytes of stream already given to gps.encode
    buf,               \* gps._buf[0 .. _idx-1]; Len(buf) is gps._idx
    gps,               \* location, date, time, speed, altitude, satellites of gps
    ret,               \* value returned by the last call of gps.encode
    lineLen,           \* bytes other than CR given to encode since the last '$', the '$' included
    last               \* the last line given to parseLine: lineLen and gps before it, and the text

cycleVars == <<millis, BtnA, BtnB, BtnC, YEAR, MONTH, DAY, HOUR, MINUTE, SECOND,
          LAT0, LONG0, KMPH, TopSpeed, distanceToMeter0,
          LAPRAD, LAPRADchange, LAPCOUNTNOW, LapCount, BeforeTime,
          LAP, LAP1, LAP2, LAP3, LAP4, LAP5,
          BestLap, BestLapNum, Sprit, AverageLap,
          sdFile, fired, firedAt, prevFiredAt, handed, speedSince, sinkBlind, holdFires>>

gpsVars == <<stream, pos, buf, gps, ret, lineLen, last>>

vars == <<cycleVars, gpsVars>>

\* ---------------------------------------------------------------- bounds
\* Upper limit of the time the model spends in short steps, in ms: for the
\* detector and the sink, and for the statistics (which need many laps).
MaxUptime == 15003
MaxStatsUptime == 94000
MaxSinkUptime == 30010
MaxRadiusUptime == 22000

\* The model stops after this many fires of CountLAP.
MaxFires == 8

\* The clock advances by at most this many ms between two consecutive calls
\* of millis() in CountLAP.
Jitter == 1

\* A period with no lap activity long enough to bring millis() to 2^28 + 1,
\* where a float has a 32 ms grain.  (A float holds millis() exactly only
\* below 2^24 ms, about 4.66 hours of uptime.)
LongIdle == 268435457

\* ---------------------------------------------------------------- characters
\* The ASCII characters of code 32 (blank) to 95, and those of code 97 to 126.
Printable ==
    " !\"#$%&'()*+,-./0123456789:;<=>?@ABCDEFGHIJKLMNOPQRSTUVWXYZ[\\]^_"

LowerCase == "abcdefghijklmnopqrstuvwxyz{|}~"

\* The characters of a string, one string of length 1 each.
Chars(str) == [i \in 1..Len(str) |-> SubSeq(str, i, i)]

\* ASCII code of each of these characters.
AsciiOf ==
    [c \in {SubSeq(Printable, i, i) : i \in 1..Len(Printable)}
            \cup {SubSeq(LowerCase, i, i) : i \in 1..Len(LowerCase)} |->
        IF \E i \in 1..Len(Printable) : SubSeq(Printable, i, i) = c
        THEN 31 + (CHOOSE i \in 1..Len(Printable) : SubSeq(Printable, i, i) = c)
        ELSE 96 + (CHOOSE i \in 1..Len(LowerCase) : SubSeq(LowerCase, i, i) = c)]

\* (uint8_t) of a character.
Code(c) == IF c = "\n" THEN 10 ELSE IF c = "\r" THEN 13 ELSE AsciiOf[c]

\* Bit k of the byte x.
Bit(x, k) == (x \div (2 ^ k)) % 2

Min(a, b) == IF a < b THEN a ELSE b

RECURSIVE Pow10(_)
Pow10(k) == IF k = 0 THEN 1 ELSE 10 * Pow10(k - 1)

IsDigit(c) == Code(c) >= 48 /\ Code(c) <= 57

\* Number of leading decimal digits of s.
RECURSIVE DigitRun(_)
DigitRun(s) ==
    IF s = <<>> \/ ~IsDigit(s[1]) THEN 0 ELSE 1 + DigitRun(Tail(s))

\* Value of a sequence of decimal digits (0 for the empty one).
RECURSIVE DigitsVal(_)
DigitsVal(s) ==
    IF s = <<>> THEN 0
    ELSE 10 * DigitsVal(SubSeq(s, 1, Len(s) - 1)) + (Code(s[Len(s)]) - 48)

\* isspace(c), for the characters of the table
IsSpace(c) == c \in {" ", "\n", "\r"}

\* Number of leading white-space characters of s.
RECURSIVE SpaceRun(_)
SpaceRun(s) ==
    IF s = <<>> \/ ~IsSpace(s[1]) THEN 0 ELSE 1 + SpaceRun(Tail(s))

\* s without its first n characters
Drop(s, n) == SubSeq(s, n + 1, Len(s))

\* s starts with the word w, whatever the case of its letters; w is a
\* sequence of sets, each holding the two cases of one letter
StartsWith(s, w) ==
    Len(s) >= Len(w) /\ \A i \in 1..Len(w) : s[i] \in w[i]

IsXDigit(c) ==
    \/ IsDigit(c)
    \/ Code(c) >= 65 /\ Code(c) <= 70
    \/ Code(c) >= 97 /\ Code(c) <= 102

XDigitVal(c) ==
    IF IsDigit(c) THEN Code(c) - 48
    ELSE IF Code(c) >= 97 THEN Code(c) - 87 ELSE Code(c) - 55

\* Number of leading hexadecimal digits of s.
RECURSIVE XDigitRun(_)
XDigitRun(s) ==
    IF s = <<>> \/ ~IsXDigit(s[1]) THEN 0 ELSE 1 + XDigitRun(Tail(s))

\* Value of a sequence of hexadecimal digits (0 for the empty one).
RECURSIVE XDigitsVal(_)
XDigitsVal(s) ==
    IF s = <<>> THEN 0
    ELSE 16 * XDigitsVal(SubSeq(s, 1, Len(s) - 1)) + XDigitVal(s[Len(s)])

RECURSIVE Pow2(_)
Pow2(k) == IF k = 0 THEN 1 ELSE 2 * Pow2(k - 1)

RECURSIVE Pow5(_)
Pow5(k) == IF k = 0 THEN 1 ELSE 5 * Pow5(k - 1)

\* The values that are no number: <<1, -1>> is +infinity, <<-1, -1>> is
\* -infinity and <<0, -1>> is NaN.
Infinity == <<1, -1>>
NaN == <<0, -1>>
IsFinite(v) == v[2] >= 0
Negate(v) == <<0 - v[1], v[2]>>

\* v with the sign the subject had
Signed(v, minus) == IF minus THEN Negate(v) ELSE v

\* An optional exponent at the head of s, introduced by one of the letters
\* of mark: its value, or 0 when there is none (a mark that no digit follows
\* is not an exponent).
Exponent(s, mark) ==
    IF s = <<>> \/ s[1] \notin mark THEN 0
    ELSE LET t    == Tail(s)
             sgn  == t # <<>> /\ t[1] \in {"+", "-"}
             u    == IF sgn THEN Tail(t) ELSE t
             v    == DigitsVal(SubSeq(u, 1, DigitRun(u)))
         IN  IF DigitRun(u) = 0 THEN 0
             ELSE IF sgn /\ t[1] = "-" THEN 0 - v ELSE v

\* m * 10^x / 10^f as a decimal
Scale10(m, x, f) ==
    IF x >= f THEN <<m * Pow10(x - f), 0>> ELSE <<m, f - x>>

\* m * 2^b as a decimal
Scale2(m, b) ==
    IF b >= 0 THEN <<m * Pow2(b), 0>> ELSE <<m * Pow5(0 - b), 0 - b>>

\* strtod on a decimal subject: digits, an optional point and digits, an
\* optional exponent; 0 when there is no digit
Decimal(s) ==
    LET n    == DigitRun(s)
        dot  == Len(s) > n /\ s[n + 1] = "."
        f    == IF dot THEN DigitRun(Drop(s, n + 1)) ELSE 0
        m    == DigitsVal(SubSeq(s, 1, n) \o SubSeq(s, n + 2, n + 1 + f))
        rest == Drop(s, n + (IF dot THEN 1 + f ELSE 0))
    IN  IF n + f = 0 THEN <<0, 0>>
        ELSE Scale10(m, Exponent(rest, {"e", "E"}), f)

\* strtod on a hexadecimal subject, the 0x already removed: hexadecimal
\* digits, an optional point and digits, an optional binary exponent
HexFloat(s) ==
    LET n    == XDigitRun(s)
        dot  == Len(s) > n /\ s[n + 1] = "."
        f    == IF dot THEN XDigitRun(Drop(s, n + 1)) ELSE 0
        m    == XDigitsVal(SubSeq(s, 1, n) \o SubSeq(s, n + 2, n + 1 + f))
        rest == Drop(s, n + (IF dot THEN 1 + f ELSE 0))
    IN  Scale2(m, Exponent(rest, {"p", "P"}) - 4 * f)

\* the subject starts a hexadecimal number: 0x and a hexadecimal digit,
\* which a point may precede
IsHexSubject(s) ==
    /\ Len(s) >= 3 /\ s[1] = "0" /\ s[2] \in {"x", "X"}
    /\ \/ IsXDigit(s[3])
       \/ Len(s) >= 4 /\ s[3] = "." /\ IsXDigit(s[4])

\* atoi(s): white space, an optional sign, decimal digits
Atoi(s) ==
    LET t   == Drop(s, SpaceRun(s))
        sgn == t # <<>> /\ t[1] \in {"+", "-"}
        u   == IF sgn THEN Tail(t) ELSE t
        v   == DigitsVal(SubSeq(u, 1, DigitRun(u)))
    IN  IF sgn /\ t[1] = "-" THEN 0 - v ELSE v

\* atof(s) as <<m, k>>, meaning m / 10^k: white space, an optional sign,
\* then "inf", "nan", a hexadecimal or a decimal number
Atof(s) ==
    LET t   == Drop(s, SpaceRun(s))
        sgn == t # <<>> /\ t[1] \in {"+", "-"}
        u   == IF sgn THEN Tail(t) ELSE t
        v   == IF StartsWith(u, <<{"i", "I"}, {"n", "N"}, {"f", "F"}>>)
                   THEN Infinity
               ELSE IF StartsWith(u, <<{"n", "N"}, {"a", "A"}, {"n", "N"}>>)
                   THEN NaN
               ELSE IF IsHexSubject(u) THEN HexFloat(Drop(u, 2))
               ELSE Decimal(u)
    IN  Signed(v, sgn /\ t[1] = "-")

\* ---------------------------------------------------------------- TinyGPSPlus
\* sizeof(_buf), main.cpp:92
BufSize == 160

\* main.cpp:96-101, the lambda h of hex2byte
HexVal(ch) ==
    LET x == Code(ch)
    IN  IF x >= 48 /\ x <= 57 THEN x - 48
        ELSE IF x >= 65 /\ x <= 70 THEN x - 65 + 10
        ELSE IF x >= 97 /\ x <= 102 THEN x - 97 + 10
        ELSE 0

\* main.cpp:95-103, on the two characters p
hex2byte(p) == (16 * HexVal(p[1]) + HexVal(p[2])) % 256

\* (int)(a / b) for b > 0: the quotient rounded towards zero
TruncDiv(a, b) == IF a >= 0 THEN a \div b ELSE 0 - ((0 - a) \div b)

\* main.cpp:105-112, as <<deg, mm, k>>: deg degrees and mm / 10^k minutes,
\* both of the sign of the number.  Of a value that is no number the
\* result is that value whatever the cast of line 109 yields, written
\* <<0, m, -1>>.
DegMin(v) ==
    LET deg == TruncDiv(v[1], Pow10(v[2] + 2))
    IN  IF ~IsFinite(v) THEN <<0, v[1], -1>>
        ELSE <<deg, v[1] - deg * Pow10(v[2] + 2), v[2]>>

nmeaToDeg(s) == IF s = <<>> THEN <<0, 0, 0>> ELSE DegMin(Atof(s))

\* main.cpp:114-123
parseTime_hhmmss(g, s) ==
    IF Len(s) < 6 THEN g
    ELSE [g EXCEPT !.hour   = Atoi(SubSeq(s, 1, 2)),
                   !.minute = Atoi(SubSeq(s, 3, 4)),
                   !.second = Atoi(SubSeq(s, 5, 6))]

\* main.cpp:125-138
parseDate_ddmmyy(g, s) ==
    IF Len(s) < 6 THEN g
    ELSE LET y == Atoi(SubSeq(s, 5, 6))
         IN  [g EXCEPT !.day   = Atoi(SubSeq(s, 1, 2)),
                       !.month = Atoi(SubSeq(s, 3, 4)),
                       !.year  = IF y >= 80 THEN 1900 + y ELSE 2000 + y]

\* main.cpp:145-146: the position x, negated when the hemisphere letter h
\* starts with c
Hemisphere(x, h, c) ==
    IF h # <<>> /\ h[1] = c THEN <<0 - x[1], 0 - x[2], x[3]>> ELSE x

\* main.cpp:140-151
setLatLon(g, lat, ns, lon, ew) ==
    IF lat = <<>> \/ lon = <<>> THEN g
    ELSE [g EXCEPT !.lat = Hemisphere(nmeaToDeg(lat), ns, "S"),
                   !.lng = Hemisphere(nmeaToDeg(lon), ew, "W")]

\* main.cpp:160-161: knots * 1.852, as <<m, k>>
KnotsToKmph(kn) ==
    IF IsFinite(kn) THEN <<kn[1] * 1852, kn[2] + 3>> ELSE kn

\* main.cpp:153-164; f is fields[0 .. n-1]
parseRMC(g, f) ==
    IF Len(f) < 10 THEN g
    ELSE IF f[3] = <<>> \/ f[3][1] # "A" THEN g
    ELSE LET g1 == parseTime_hhmmss(g, f[2])
             g2 == setLatLon(g1, f[4], f[5], f[6], f[7])
             kn == IF f[8] # <<>> THEN Atof(f[8]) ELSE <<0, 0>>
             g3 == [g2 EXCEPT !.kmph = KnotsToKmph(kn)]
         IN  parseDate_ddmmyy(g3, f[10])

\* main.cpp:166-174
parseGGA(g, f) ==
    IF Len(f) < 10 THEN g
    ELSE LET g1 == parseTime_hhmmss(g, f[2])
             g2 == setLatLon(g1, f[3], f[4], f[5], f[6])
         IN  [g2 EXCEPT !.satellites = IF f[8] # <<>> THEN Atoi(f[8]) ELSE @,
                        !.meters     = IF f[10] # <<>> THEN Atof(f[10]) ELSE @]

\* Least index k >= i with s[k] = c, Len(s) + 1 if there is none.
FirstAt(s, c, i) ==
    LET hits == {k \in i..Len(s) : s[k] = c}
    IN  IF hits = {} THEN Len(s) + 1
        ELSE CHOOSE k \in hits : \A h \in hits : k <= h

\* Index of the first '*' in s, 0 if there is none (strchr, main.cpp:181).
StarAt(s) == LET k == FirstAt(s, "*", 1) IN IF k > Len(s) THEN 0 ELSE k

\* main.cpp:184-185: XOR of the bytes of s; bit k of it is the parity of the
\* number of bytes with bit k set.
Checksum(s) ==
    LET parity(k) == Cardinality({i \in 1..Len(s) : Bit(Code(s[i]), k) = 1}) % 2
    IN  parity(0) + 2 * parity(1) + 4 * parity(2) + 8 * parity(3)
        + 16 * parity(4) + 32 * parity(5) + 64 * parity(6) + 128 * parity(7)

\* Index of the first ',' of s at or after i, Len(s) + 1 if there is none.
CommaAt(s, i) == FirstAt(s, ",", i)

\* main.cpp:197: the tokens strtok_r(.., ",", ..) returns one after the other
\* from index i on; a token is a longest run of characters other than ','.
RECURSIVE Split(_, _)
Split(s, i) ==
    LET c == CommaAt(s, i)
    IN  IF i > Len(s) THEN <<>>
        ELSE IF c = i THEN Split(s, i + 1)
        ELSE <<SubSeq(s, i, c - 1)>> \o Split(s, c + 1)

\* main.cpp:194-199: fields[0 .. nf-1], at most 24
Fields(body) ==
    LET t == Split(body, 1) IN SubSeq(t, 1, Min(24, Len(t)))

\* main.cpp:187 (strlen(ast) < 3 is not the case); tail starts at the '*'
ChecksumPresent(tail) == Len(tail) >= 3

\* main.cpp:176-213; line is the content of _buf
parseLine(g, line) ==
    IF line = <<>> \/ line[1] # "$" THEN g
    ELSE LET body == Tail(line)
             ast  == StarAt(body)
         IN  IF ast <= 1 THEN g
             ELSE IF ~ChecksumPresent(SubSeq(body, ast, Len(body))) THEN g
             ELSE IF Checksum(SubSeq(body, 1, ast - 1))
                       # hex2byte(SubSeq(body, ast + 1, ast + 2)) THEN g
             ELSE LET f == Fields(SubSeq(body, 1, ast - 1))
                  IN  IF f = <<>> \/ Len(f[1]) < 3 THEN g
                      ELSE LET suf == SubSeq(f[1], Len(f[1]) - 2, Len(f[1]))
                           IN  IF suf = Chars("RMC") THEN parseRMC(g, f)
                               ELSE IF suf = Chars("GGA") THEN parseGGA(g, f)
                               ELSE g

\* HasRoom that lets the last byte of _buf be used for a character.
HasRoom_NoTerminator(idx) == idx < BufSize

\* main.cpp:62 (_idx < (int)sizeof(_buf) - 1)
HasRoom(idx) == idx < BufSize - 1

\* The members of gps after construction, main.cpp:17-50.
NoFix ==
    [lat |-> <<0, 0, 0>>, lng |-> <<0, 0, 0>>,
     year |-> 0, month |-> 0, day |-> 0,
     hour |-> 0, minute |-> 0, second |-> 0,
     kmph |-> <<0, 0>>, meters |-> <<0, 0>>, satellites |-> 0]

\* main.cpp:62-65: _buf after the attempt to store c
Store(b, c) == IF HasRoom(Len(b)) THEN Append(b, c) ELSE b

\* main.cpp:52-73: the state <<buf, gps, ret>> encode(c) leaves
encode(b, g, c) ==
    IF c = "\r" THEN <<b, g, FALSE>>
    ELSE IF c = "$" THEN <<<<"$">>, g, FALSE>>
    ELSE IF c = "\n" THEN <<<<>>, parseLine(g, Store(b, c)), TRUE>>
    ELSE <<Store(b, c), g, FALSE>>

\* No line has been given to parseLine.
NoLine == [len |-> 0, text |-> <<>>, from |-> NoFix]

\* The decoder gps, with what the model remembers of its input.
Decoder ==
    [buf |-> buf, gps |-> gps, ret |-> ret, lineLen |-> lineLen, last |-> last]

\* The decoder d after encode(c) has left e = <<buf, gps, ret>>
Fed(d, c, e) ==
    [buf |-> e[1], gps |-> e[2], ret |-> e[3],
     lineLen |-> IF c = "\r" THEN d.lineLen
                 ELSE IF c = "$" THEN 1
                 ELSE IF c = "\n" THEN 0
                 ELSE d.lineLen + 1,
     last |-> IF c = "\n"
              THEN [len |-> d.lineLen, text |-> Store(d.buf, c), from |-> d.gps]
              ELSE d.last]

\* main.cpp:399: gps.encode(c) on the decoder d
Feed(d, c) == Fed(d, c, encode(d.buf, d.gps, c))

\* Feed on the bytes s[lo .. hi], one after the other; the first half is
\* evaluated before the second one starts.
RECURSIVE DrainRange(_, _, _, _)
DrainRange(d, s, lo, hi) ==
    IF lo > hi THEN d
    ELSE IF lo = hi THEN Feed(d, s[lo])
    ELSE LET mid  == (lo + hi) \div 2
             left == DrainRange(d, s, lo, mid)
         IN  IF left.ret \in BOOLEAN THEN DrainRange(left, s, mid + 1, hi)
             ELSE left

\* main.cpp:397-401: the while loop of ReadGPS on the bytes Serial2 holds
Drain(d, bytes) == DrainRange(d, bytes, 1, Len(bytes))

\* ---------------------------------------------------------------- floats
\* Spacing of the floats around a non-negative integer n (24-bit significand).
RECURSIVE Ulp(_)
Ulp(n) == IF n < 16777216 THEN 1 ELSE 2 * Ulp(n \div 2)

\* Conversion of a non-negative integer to float, round to nearest, ties to even.
F32(n) ==
    LET g == Ulp(n)
        q == n \div g
        r == n % g
    IN  IF 2 * r < g THEN q * g
        ELSE IF 2 * r > g THEN (q + 1) * g
        ELSE IF q % 2 = 0 THEN q * g ELSE (q + 1) * g

\* (millis() - BeforeTime): millis() is converted to float, the float
\* difference is rounded to float.  In ms.
Elapsed(ms, bt) ==
    LET d == F32(ms) - bt
    IN  IF d >= 0 THEN F32(d) ELSE 0 - F32(0 - d)

\* A float other than an integer number of milliseconds is <<m, e>>, meaning
\* m * 2^e with 2^23 <= |m| < 2^24, or <<0, 0>>; <<1, 999>> is +infinity,
\* <<-1, 999>> is -infinity and <<0, 999>> is NaN.
FZero == <<0, 0>>
FNaN == <<0, 999>>
FNeg(a) == <<0 - a[1], a[2]>>

\* The powers of two that fit an int.
PowerOf2 == [k \in 0..30 |-> Pow2(k)]

\* Number of bits of m >= 0 (0 for 0).
RECURSIVE Width(_)
Width(m) == IF m = 0 THEN 0 ELSE 1 + Width(m \div 2)

\* The bits of p / q after the leading m, until m has 24 bits: <<m, r, e>>
\* with p / q = (m + r / q) * 2^e and r < q.  The long division yields one
\* bit at a time, or, where r * 2^20 fits an int, up to 20 bits at a time.
RECURSIVE Grow(_, _, _, _)
Grow(m, r, q, e) ==
    IF m >= 8388608 THEN <<m, r, e>>
    ELSE LET k == IF q > 1024 THEN 1 ELSE Min(20, 24 - Width(m))
             t == PowerOf2[k]
         IN  Grow(m * t + (r * t) \div q, (r * t) % q, q, e - k)

\* m * 2^e, where m may have reached 2^24 by rounding up
Renorm(m, e) == IF m = 16777216 THEN <<8388608, e + 1>> ELSE <<m, e>>

\* The float nearest to p / q, ties to even, for p >= 0 and 0 < q < 2^30:
\* the result of a float division of two floats of these values, and of the
\* conversion of the quotient to float.
RoundQ(p, q) ==
    LET i == p \div q
        r == p % q
    IN  IF p = 0 THEN FZero
        ELSE IF i < 16777216
        THEN LET g  == Grow(i, r, q, 0)
                 up == 2 * g[2] > q \/ (2 * g[2] = q /\ g[1] % 2 = 1)
             IN  Renorm(g[1] + (IF up THEN 1 ELSE 0), g[3])
        ELSE LET u   == Ulp(i)
                 m   == i \div u
                 low == i % u
                 up  == \/ 2 * low > u
                        \/ 2 * low = u /\ (r > 0 \/ m % 2 = 1)
                 n   == Width(u) - 1
             IN  Renorm(m + (IF up THEN 1 ELSE 0), n)

\* a * 2^k
FScale(a, k) == IF a[1] = 0 THEN a ELSE <<a[1], a[2] + k>>

\* a < b on floats
FLt(a, b) ==
    /\ a # FNaN /\ b # FNaN
    /\ IF a[1] > 0 /\ b[1] > 0
       THEN a[2] < b[2] \/ (a[2] = b[2] /\ a[1] < b[1])
       ELSE IF a[1] < 0 /\ b[1] < 0
       THEN a[2] > b[2] \/ (a[2] = b[2] /\ a[1] < b[1])
       ELSE a[1] < b[1]

\* a <= b on floats
FLe(a, b) == a # FNaN /\ b # FNaN /\ ~FLt(b, a)

\* a + b on finite floats that are not negative
FAdd(a, b) ==
    LET hi == IF FLt(a, b) THEN b ELSE a
        lo == IF FLt(a, b) THEN a ELSE b
        d  == hi[2] - lo[2]
        y  == 4 * lo[1]
        st == IF y % PowerOf2[d] = 0 THEN 0 ELSE 1
    IN  IF lo[1] = 0 \/ d > 26 THEN hi
        ELSE FScale(RoundQ(2 * (4 * hi[1] + y \div PowerOf2[d]) + st, 2), hi[2] - 2)

\* a / n on a finite float a that is not negative and an int n > 0
FDivInt(a, n) == FScale(RoundQ(a[1], n), a[2])

\* (float)n for an int n >= 0
FromInt(n) == RoundQ(n, 1)

\* (float)v for the double v = m / 10^k read by atof
FromDecimal(v) ==
    IF ~IsFinite(v) THEN <<v[1], 999>>
    ELSE IF v[1] >= 0 THEN RoundQ(v[1], Pow10(v[2]))
    ELSE FNeg(RoundQ(0 - v[1], Pow10(v[2])))

\* (float)x for the position x = <<deg, mm, k>>
FromPosition(x) ==
    LET q == 60 * Pow10(x[3])
        p == x[1] * q + x[2]
    IN  IF x[3] < 0 THEN <<x[2], 999>>
        ELSE IF p >= 0 THEN RoundQ(p, q) ELSE FNeg(RoundQ(0 - p, q))

\* (millis() - BeforeTime) / 1000, the float quotient of d ms by 1000
Seconds(d) == IF d >= 0 THEN RoundQ(d, 1000) ELSE FNeg(RoundQ(0 - d, 1000))

\* The floats 5.0f, 10.0f and 50.0f.
Five == FromInt(5)
Ten == FromInt(10)
Fifty == FromInt(50)

\* ((millis() - BeforeTime) / 1000) > 10
DebounceOver(ms, bt) == FLt(Ten, Seconds(Elapsed(ms, bt)))

\* ---------------------------------------------------------------- distance
\* main.cpp:75-89 and the cast of main.cpp:414 and 433:
\* (float)distanceBetween(lat1, lng1, lat2, lng2), where lat1 and lng1 are
\* positions <<deg, mm, k>> and lat2 and lng2 are floats.  The sines, the
\* cosines, the square roots and the arc tangent are not computed here: the
\* table holds the values the function returns for the positions of the
\* sentences below and of a decoder without fix, against the origin of
\* main.cpp:225 and against each of these positions taken as origin.
Haversine ==
       (<<<<0, 0, 0>>, <<0, 0, 0>>, <<9271999, -18>>, <<9105156, -16>>>> :> <<14225946, 0>>)
    @@ (<<<<35, 3234375, 5>>, <<138, 5625000, 5>>, <<9271999, -18>>, <<9105156, -16>>>> :> <<9634128, -9>>)
    @@ (<<<<35, 3234375, 5>>, <<138, 5624800, 5>>, <<9271999, -18>>, <<9105156, -16>>>> :> <<9634100, -9>>)
    @@ (<<<<35, 3234286, 5>>, <<138, 5624687, 5>>, <<9271999, -18>>, <<9105156, -16>>>> :> <<9633239, -9>>)
    @@ (<<<<35, 3234375, 5>>, <<138, 5624536, 5>>, <<9271999, -18>>, <<9105156, -16>>>> :> <<9634062, -9>>)
    @@ (<<<<35, 3234375, 5>>, <<138, 5621000, 5>>, <<9271999, -18>>, <<9105156, -16>>>> :> <<9633606, -9>>)
    @@ (<<<<-37, -516500, 4>>, <<145, 73600, 4>>, <<9271999, -18>>, <<9105156, -16>>>> :> <<16335670, -1>>)
    @@ (<<<<35, 221920, 4>>, <<139, 321920, 4>>, <<9271999, -18>>, <<9105156, -16>>>> :> <<13994005, -8>>)
    @@ (<<<<0, 0, 0>>, <<0, 0, 0>>, <<0, 0>>, <<0, 0>>>> :> <<0, 0>>)
    @@ (<<<<35, 3234375, 5>>, <<138, 5625000, 5>>, <<0, 0>>, <<0, 0>>>> :> <<14215810, 0>>)
    @@ (<<<<35, 3234375, 5>>, <<138, 5624800, 5>>, <<0, 0>>, <<0, 0>>>> :> <<14215807, 0>>)
    @@ (<<<<35, 3234286, 5>>, <<138, 5624687, 5>>, <<0, 0>>, <<0, 0>>>> :> <<14215807, 0>>)
    @@ (<<<<35, 3234375, 5>>, <<138, 5624536, 5>>, <<0, 0>>, <<0, 0>>>> :> <<14215804, 0>>)
    @@ (<<<<35, 3234375, 5>>, <<138, 5621000, 5>>, <<0, 0>>, <<0, 0>>>> :> <<14215760, 0>>)
    @@ (<<<<-37, -516500, 4>>, <<145, 73600, 4>>, <<0, 0>>, <<0, 0>>>> :> <<14496237, 0>>)
    @@ (<<<<35, 221920, 4>>, <<139, 321920, 4>>, <<0, 0>>, <<0, 0>>>> :> <<14271329, 0>>)
    @@ (<<<<0, 0, 0>>, <<0, 0, 0>>, <<9316352, -18>>, <<9105408, -16>>>> :> <<14215810, 0>>)
    @@ (<<<<35, 3234375, 5>>, <<138, 5625000, 5>>, <<9316352, -18>>, <<9105408, -16>>>> :> <<0, 0>>)
    @@ (<<<<35, 3234375, 5>>, <<138, 5624800, 5>>, <<9316352, -18>>, <<9105408, -16>>>> :> <<12650227, -22>>)
    @@ (<<<<35, 3234286, 5>>, <<138, 5624687, 5>>, <<9316352, -18>>, <<9105408, -16>>>> :> <<10485760, -21>>)
    @@ (<<<<35, 3234375, 5>>, <<138, 5624536, 5>>, <<9316352, -18>>, <<9105408, -16>>>> :> <<14674263, -21>>)
    @@ (<<<<35, 3234375, 5>>, <<138, 5621000, 5>>, <<9316352, -18>>, <<9105408, -16>>>> :> <<15812783, -18>>)
    @@ (<<<<-37, -516500, 4>>, <<145, 73600, 4>>, <<9316352, -18>>, <<9105408, -16>>>> :> <<16373087, -1>>)
    @@ (<<<<35, 221920, 4>>, <<139, 321920, 4>>, <<9316352, -18>>, <<9105408, -16>>>> :> <<14701465, -8>>)
    @@ (<<<<0, 0, 0>>, <<0, 0, 0>>, <<9316352, -18>>, <<9105406, -16>>>> :> <<14215807, 0>>)
    @@ (<<<<35, 3234375, 5>>, <<138, 5625000, 5>>, <<9316352, -18>>, <<9105406, -16>>>> :> <<11581628, -22>>)
    @@ (<<<<35, 3234375, 5>>, <<138, 5624800, 5>>, <<9316352, -18>>, <<9105406, -16>>>> :> <<8548786, -25>>)
    @@ (<<<<35, 3234286, 5>>, <<138, 5624687, 5>>, <<9316352, -18>>, <<9105406, -16>>>> :> <<10740655, -22>>)
    @@ (<<<<35, 3234375, 5>>, <<138, 5624536, 5>>, <<9316352, -18>>, <<9105406, -16>>>> :> <<8883449, -21>>)
    @@ (<<<<35, 3234375, 5>>, <<138, 5621000, 5>>, <<9316352, -18>>, <<9105406, -16>>>> :> <<15088931, -18>>)
    @@ (<<<<-37, -516500, 4>>, <<145, 73600, 4>>, <<9316352, -18>>, <<9105406, -16>>>> :> <<16373087, -1>>)
    @@ (<<<<35, 221920, 4>>, <<139, 321920, 4>>, <<9316352, -18>>, <<9105406, -16>>>> :> <<14702134, -8>>)
    @@ (<<<<0, 0, 0>>, <<0, 0, 0>>, <<9316348, -18>>, <<9105405, -16>>>> :> <<14215807, 0>>)
    @@ (<<<<35, 3234375, 5>>, <<138, 5625000, 5>>, <<9316348, -18>>, <<9105405, -16>>>> :> <<9386773, -21>>)
    @@ (<<<<35, 3234375, 5>>, <<138, 5624800, 5>>, <<9316348, -18>>, <<9105405, -16>>>> :> <<8540700, -22>>)
    @@ (<<<<35, 3234286, 5>>, <<138, 5624687, 5>>, <<9316348, -18>>, <<9105405, -16>>>> :> <<9733066, -24>>)
    @@ (<<<<35, 3234375, 5>>, <<138, 5624536, 5>>, <<9316348, -18>>, <<9105405, -16>>>> :> <<13930930, -22>>)
    @@ (<<<<35, 3234375, 5>>, <<138, 5621000, 5>>, <<9316348, -18>>, <<9105405, -16>>>> :> <<14733722, -18>>)
    @@ (<<<<-37, -516500, 4>>, <<145, 73600, 4>>, <<9316348, -18>>, <<9105405, -16>>>> :> <<16373084, -1>>)
    @@ (<<<<35, 221920, 4>>, <<139, 321920, 4>>, <<9316348, -18>>, <<9105405, -16>>>> :> <<14702327, -8>>)
    @@ (<<<<0, 0, 0>>, <<0, 0, 0>>, <<9316352, -18>>, <<9105403, -16>>>> :> <<14215804, 0>>)
    @@ (<<<<35, 3234375, 5>>, <<138, 5625000, 5>>, <<9316352, -18>>, <<9105403, -16>>>> :> <<14477035, -21>>)
    @@ (<<<<35, 3234375, 5>>, <<138, 5624800, 5>>, <<9316352, -18>>, <<9105403, -16>>>> :> <<16303844, -22>>)
    @@ (<<<<35, 3234286, 5>>, <<138, 5624687, 5>>, <<9316352, -18>>, <<9105403, -16>>>> :> <<11476075, -22>>)
    @@ (<<<<35, 3234375, 5>>, <<138, 5624536, 5>>, <<9316352, -18>>, <<9105403, -16>>>> :> <<12622554, -27>>)
    @@ (<<<<35, 3234375, 5>>, <<138, 5621000, 5>>, <<9316352, -18>>, <<9105403, -16>>>> :> <<14003154, -18>>)
    @@ (<<<<-37, -516500, 4>>, <<145, 73600, 4>>, <<9316352, -18>>, <<9105403, -16>>>> :> <<16373088, -1>>)
    @@ (<<<<35, 221920, 4>>, <<139, 321920, 4>>, <<9316352, -18>>, <<9105403, -16>>>> :> <<14703137, -8>>)
    @@ (<<<<0, 0, 0>>, <<0, 0, 0>>, <<9316352, -18>>, <<9105364, -16>>>> :> <<14215759, 0>>)
    @@ (<<<<35, 3234375, 5>>, <<138, 5625000, 5>>, <<9316352, -18>>, <<9105364, -16>>>> :> <<15924739, -18>>)
    @@ (<<<<35, 3234375, 5>>, <<138, 5624800, 5>>, <<9316352, -18>>, <<9105364, -16>>>> :> <<15134100, -18>>)
    @@ (<<<<35, 3234286, 5>>, <<138, 5624687, 5>>, <<9316352, -18>>, <<9105364, -16>>>> :> <<14693753, -18>>)
    @@ (<<<<35, 3234375, 5>>, <<138, 5624536, 5>>, <<9316352, -18>>, <<9105364, -16>>>> :> <<14090456, -18>>)
    @@ (<<<<35, 3234375, 5>>, <<138, 5621000, 5>>, <<9316352, -18>>, <<9105364, -16>>>> :> <<14330335, -25>>)
    @@ (<<<<-37, -516500, 4>>, <<145, 73600, 4>>, <<9316352, -18>>, <<9105364, -16>>>> :> <<16373097, -1>>)
    @@ (<<<<35, 221920, 4>>, <<139, 321920, 4>>, <<9316352, -18>>, <<9105364, -16>>>> :> <<14716175, -8>>)
    @@ (<<<<0, 0, 0>>, <<0, 0, 0>>, <<-9924990, -18>>, <<9510759, -16>>>> :> <<14496237, 0>>)
    @@ (<<<<35, 3234375, 5>>, <<138, 5625000, 5>>, <<-9924990, -18>>, <<9510759, -16>>>> :> <<16373086, -1>>)
    @@ (<<<<35, 3234375, 5>>, <<138, 5624800, 5>>, <<-9924990, -18>>, <<9510759, -16>>>> :> <<16373087, -1>>)
    @@ (<<<<35, 3234286, 5>>, <<138, 5624687, 5>>, <<-9924990, -18>>, <<9510759, -16>>>> :> <<16373084, -1>>)
    @@ (<<<<35, 3234375, 5>>, <<138, 5624536, 5>>, <<-9924990, -18>>, <<9510759, -16>>>> :> <<16373088, -1>>)
    @@ (<<<<35, 3234375, 5>>, <<138, 5621000, 5>>, <<-9924990, -18>>, <<9510759, -16>>>> :> <<16373097, -1>>)
    @@ (<<<<-37, -516500, 4>>, <<145, 73600, 4>>, <<-9924990, -18>>, <<9510759, -16>>>> :> <<11178010, -26>>)
    @@ (<<<<35, 221920, 4>>, <<139, 321920, 4>>, <<-9924990, -18>>, <<9510759, -16>>>> :> <<16326432, -1>>)
    @@ (<<<<0, 0, 0>>, <<0, 0, 0>>, <<9271998, -18>>, <<9144666, -16>>>> :> <<14271329, 0>>)
    @@ (<<<<35, 3234375, 5>>, <<138, 5625000, 5>>, <<9271998, -18>>, <<9144666, -16>>>> :> <<14701394, -8>>)
    @@ (<<<<35, 3234375, 5>>, <<138, 5624800, 5>>, <<9271998, -18>>, <<9144666, -16>>>> :> <<14702124, -8>>)
    @@ (<<<<35, 3234286, 5>>, <<138, 5624687, 5>>, <<9271998, -18>>, <<9144666, -16>>>> :> <<14702400, -8>>)
    @@ (<<<<35, 3234375, 5>>, <<138, 5624536, 5>>, <<9271998, -18>>, <<9144666, -16>>>> :> <<14703088, -8>>)
    @@ (<<<<35, 3234375, 5>>, <<138, 5621000, 5>>, <<9271998, -18>>, <<9144666, -16>>>> :> <<14716000, -8>>)
    @@ (<<<<-37, -516500, 4>>, <<145, 73600, 4>>, <<9271998, -18>>, <<9144666, -16>>>> :> <<16326432, -1>>)
    @@ (<<<<35, 221920, 4>>, <<139, 321920, 4>>, <<9271998, -18>>, <<9144666, -16>>>> :> <<12443746, -25>>)

distanceBetween(lat1, lng1, lat2, lng2) == Haversine[<<lat1, lng1, lat2, lng2>>]

\* ---------------------------------------------------------------- ReadGPS
\* main.cpp:418-420
NextTopSpeed(top, kmph) == IF FLt(top, kmph) THEN kmph ELSE top

\* main.cpp:423-427: <<DAY, HOUR>> after the shift to JST
ToJST(day, hour) ==
    IF hour + 9 >= 24
    THEN <<day + (hour + 9) \div 24, (hour + 9) % 24>>
    ELSE <<day, hour + 9>>

\* NextLapRad that advances in every cycle in which BtnB is held.
NextLapRad_WhileHeld(rad, chg, b) ==
    IF b THEN <<FAdd(IF rad = Fifty THEN FZero ELSE rad, Five), TRUE>>
    ELSE <<rad, FALSE>>

\* main.cpp:437-439 then 441-447; result <<LAPRAD, LAPRADchange>>
NextLapRad(rad, chg, b) ==
    LET chg1 == IF ~b /\ chg THEN FALSE ELSE chg
    IN  IF b /\ ~chg1
        THEN <<FAdd(IF rad = Fifty THEN FZero ELSE rad, Five), TRUE>>
        ELSE <<rad, chg1>>

\* The globals ReadGPS assigns.
Readings ==
    [YEAR |-> YEAR, MONTH |-> MONTH, DAY |-> DAY,
     HOUR |-> HOUR, MINUTE |-> MINUTE, SECOND |-> SECOND,
     LAT0 |-> LAT0, LONG0 |-> LONG0,
     KMPH |-> KMPH, TopSpeed |-> TopSpeed, distanceToMeter0 |-> distanceToMeter0,
     LAPRAD |-> LAPRAD, LAPRADchange |-> LAPRADchange]

\* main.cpp:403-447: ReadGPS after its while loop, on the decoder members g
\* and the globals r, with BtnA and BtnB sampled as a and b
ReadGPS(r, g, a, b) ==
    LET jst  == ToJST(g.day, g.hour)
        kmph == FromDecimal(g.kmph)
        lat0 == IF a THEN FromPosition(g.lat) ELSE r.LAT0
        lng0 == IF a THEN FromPosition(g.lng) ELSE r.LONG0
        rad  == NextLapRad(r.LAPRAD, r.LAPRADchange, b)
    IN  [YEAR |-> g.year, MONTH |-> g.month, DAY |-> jst[1],
         HOUR |-> jst[2], MINUTE |-> g.minute, SECOND |-> g.second,
         LAT0 |-> lat0, LONG0 |-> lng0,
         KMPH |-> kmph, TopSpeed |-> NextTopSpeed(r.TopSpeed, kmph),
         distanceToMeter0 |->
             IF a THEN distanceBetween(g.lat, g.lng, lat0, lng0)
             ELSE distanceBetween(g.lat, g.lng, r.LAT0, r.LONG0),
         LAPRAD |-> rad[1], LAPRADchange |-> rad[2]]

\* ---------------------------------------------------------------- CountLAP
\* Rearm that forgets the manual override.
Rearm_IgnoresOverride(now, dist, rad, c) ==
    IF FLe(rad, dist) /\ now THEN FALSE ELSE now

\* main.cpp:455-457
Rearm(now, dist, rad, c) ==
    IF FLe(rad, dist) /\ ~c /\ now THEN FALSE ELSE now

\* FireCond without the distance # 0 guard.
FireCond_ZeroFires(now, dist, rad, c, ms, bt) ==
    /\ FLe(dist, rad) \/ c
    /\ now = FALSE
    /\ DebounceOver(ms, bt)

\* main.cpp:460-462, with LAPCOUNTNOW as left by Rearm; ms is the value
\* millis() returns at main.cpp:462
FireCond(now, dist, rad, c, ms, bt) ==
    /\ (dist # FZero /\ FLe(dist, rad)) \/ c
    /\ now = FALSE
    /\ DebounceOver(ms, bt)

\* ClosesLap that treats the first fire as closing a lap.
ClosesLap_Always(cnt) == cnt >= 0

\* main.cpp:464 (LapCount > 0): the fire closes a lap
ClosesLap(cnt) == cnt > 0

\* Shift that never fills the last slot.
Shift_FiveSlots(h, lap) == <<lap, h[1], h[2], h[3], h[4], h[6]>>

\* main.cpp:465-471: LAP5 = LAP4; ... LAP1 = LAP; LAP = duration.
\* h is <<LAP, LAP1, LAP2, LAP3, LAP4, LAP5>>.
Shift(h, lap) == <<lap, h[1], h[2], h[3], h[4], h[5]>>

\* IsBest that also accepts a tie.
IsBest_OrEqual(lap, best) == FLe(lap, best)

\* main.cpp:474 (LAP < BestLap)
IsBest(lap, best) == FLt(lap, best)

\* main.cpp:476 (BestLapNum = LapCount) and main.cpp:701 (the index written)
LapIndex(cnt) == cnt

\* NextSprit that leaves the first completed lap out of the sum.
NextSprit_SkipFirst(sum, lap, cnt) == IF cnt > 1 THEN FAdd(sum, lap) ELSE sum

\* main.cpp:480 (Sprit += LAP)
NextSprit(sum, lap, cnt) == FAdd(sum, lap)

\* AverageDue that already holds when the first lap completes.
AverageDue_FromFirst(cnt) == cnt > 0

\* main.cpp:481 (LapCount > 1)
AverageDue(cnt) == cnt > 1

\* main.cpp:482 (AverageLap = Sprit / LapCount)
Average(sum, cnt) == FDivInt(sum, cnt)

\* main.cpp:698-699: writeData returns before writing and before TopSpeed = 0
\* when the file cannot be opened
SinkOpen(ok) == ok

\* The core state.
Core ==
    [LAPCOUNTNOW |-> LAPCOUNTNOW, LapCount |-> LapCount, BeforeTime |-> BeforeTime,
     History |-> <<LAP, LAP1, LAP2, LAP3, LAP4, LAP5>>,
     BestLap |-> BestLap, BestLapNum |-> BestLapNum,
     Sprit |-> Sprit, AverageLap |-> AverageLap, TopSpeed |-> TopSpeed]

\* CountLAP (main.cpp:453-491) with writeData (main.cpp:697-708), run on the
\* core state s: the core state it leaves.  millis() returns ms at
\* main.cpp:462, ms + d2 at its next call (main.cpp:471, or main.cpp:485 in
\* the first fire) and ms + d2 + d3 at main.cpp:472.
CountLAP(s, ms, d2, d3, dist, rad, c, ok) ==
    LET now1 == Rearm(s.LAPCOUNTNOW, dist, rad, c)
        fire == FireCond(now1, dist, rad, c, ms, s.BeforeTime)
        lap  == Seconds(Elapsed(ms + d2, s.BeforeTime))
        best == IsBest(lap, s.BestLap)
        sum  == NextSprit(s.Sprit, lap, s.LapCount)
    IN  IF ~fire THEN [s EXCEPT !.LAPCOUNTNOW = now1]
        ELSE IF ClosesLap(s.LapCount)
        THEN [LAPCOUNTNOW |-> TRUE,
              LapCount    |-> s.LapCount + 1,
              BeforeTime  |-> F32(ms + d2 + d3),
              History     |-> Shift(s.History, lap),
              BestLap     |-> IF best THEN lap ELSE s.BestLap,
              BestLapNum  |-> IF best THEN LapIndex(s.LapCount) ELSE s.BestLapNum,
              Sprit       |-> sum,
              AverageLap  |-> IF AverageDue(s.LapCount)
                              THEN Average(sum, s.LapCount) ELSE s.AverageLap,
              TopSpeed    |-> IF SinkOpen(ok) THEN FZero ELSE s.TopSpeed]
        ELSE [s EXCEPT !.LAPCOUNTNOW = TRUE,
                       !.LapCount = s.LapCount + 1,
                       !.BeforeTime = F32(ms + d2)]

\* The last value millis() returned in the cycle whose CountLAP read ms at
\* main.cpp:462: the read of main.cpp:472 or main.cpp:485 in a fire.
LastRead(fire, cnt, ms, d2, d3) ==
    IF ~fire THEN ms
    ELSE IF ClosesLap(cnt) THEN ms + d2 + d3 ELSE ms + d2

\* ---------------------------------------------------------------- Serial2
HexDigits == Chars("0123456789ABCDEF")

\* The two upper-case hexadecimal digits of the byte x.
Hex2(x) == <<HexDigits[(x \div 16) + 1], HexDigits[(x % 16) + 1]>>

\* "$" body "*" hh: a sentence with the checksum parseLine computes for it.
Framed(body) == <<"$">> \o body \o <<"*">> \o Hex2(Checksum(body))

\* The sentence as a receiver sends it, closed by CR LF.
Sentence(body) == Framed(body) \o <<"\r", "\n">>

\* n times the character c
Pad(c, n) == [i \in 1..n |-> c]

\* s with its i-th character replaced by r
Replace(s, i, r) == [s EXCEPT ![i] = r]

RmcA  == Chars("GPRMC,081836,A,3751.6500,S,14507.3600,E,000.5,360.0,130998,011.3,E")
RmcB  == Chars("GPRMC,123900,A,3522.1920,N,13932.1920,E,022.4,084.4,230394,003.1,W")
Rmc13 == Chars("GPRMC,123519,A,3522.1920,N,13932.1920,E,10.0,,100200,,")
Gga13 == Chars("GPGGA,123519,3522.1920,N,13932.1920,E,1,08,0.9,15.2,M,46.9,M,,")
RmcNoSpeed == Chars("GPRMC,123900,A,3522.1920,N,13932.1920,E,,084.4,230394,003.1,W")
GgaNoSats  == Chars("GPGGA,123900,3522.1920,N,13932.1920,E,1,,0.9,15.2,M,46.9,M,,")
GgaA  == Chars("GNGGA,081836,3751.6500,S,14507.3600,E,1,05,1.5,280.2,M,-34.0,M,,")

\* Numbers written with a sign, an exponent, in hexadecimal, and no number.
GgaSigned == Chars("GPGGA,123900,3522.1920,N,13932.1920,E,1,+8,0.9,-12.5,M,46.9,M,,")
RmcExp    == Chars("GPRMC,123900,A,3522.1920,N,13932.1920,E,1e1,084.4,230394,003.1,W")
RmcHex    == Chars("GPRMC,123905,A,3522.1920,N,13932.1920,E,0x1.8p1,084.4,230394,003.1,W")
RmcNan    == Chars("GPRMC,123910,A,3522.1920,N,13932.1920,E,nan,084.4,-1 394,003.1,W")

\* The RMC without course, then the GGA.
Scenario13 == Sentence(Rmc13) \o Sentence(Gga13)

\* A sentence that is accepted, ahead of the line under test.
Prefix == Sentence(RmcA)

\* The sentences of a receiver on the track.  The gate is a point whose
\* coordinates are floats, so that BtnA pressed there makes it the origin;
\* the others are about 3 m, exactly 5 m (as a float), about 7 m and about
\* 60 m from it.
Gate == Chars("GPRMC,090000,A,3532.34375,N,13856.25000,E,000.0,000.0,010125")
Near == Chars("GPRMC,090005,A,3532.34375,N,13856.24800,E,000.0,000.0,010125")
Edge == Chars("GPRMC,090010,A,3532.34286,N,13856.24687,E,000.0,000.0,010125")
Out  == Chars("GPRMC,090015,A,3532.34375,N,13856.24536,E,000.0,000.0,010125")

\* The same receiver away from the gate at 40.0032 and 90.0072 km/h, late
\* enough in the day (UTC) for the date to change in JST.
Slow == Chars("GPRMC,160000,A,3532.34375,N,13856.21000,E,021.6,000.0,311224")
Fast == Chars("GPRMC,160005,A,3532.34375,N,13856.21000,E,048.6,000.0,311224")

\* ---------------------------------------------------------------- states
\* No byte has arrived on Serial2.
Silent ==
    /\ stream = <<>> /\ pos = 0 /\ buf = <<>> /\ gps = NoFix
    /\ ret = FALSE /\ lineLen = 0 /\ last = NoLine

\* The globals after setup(), main.cpp:219-232 and 340-373.
Booted ==
    /\ millis = 0
    /\ BtnA = FALSE /\ BtnB = FALSE /\ BtnC = FALSE
    /\ YEAR = 0 /\ MONTH = 0 /\ DAY = 0 /\ HOUR = 0 /\ MINUTE = 0 /\ SECOND = 0
    /\ LAT0 = <<9271999, -18>> /\ LONG0 = <<9105156, -16>>
    /\ KMPH = FZero /\ TopSpeed = FZero /\ distanceToMeter0 = FZero
    /\ LAPRAD = Five /\ LAPRADchange = FALSE
    /\ LAPCOUNTNOW = FALSE /\ LapCount = 0 /\ BeforeTime = 0
    /\ LAP = FZero /\ LAP1 = FZero /\ LAP2 = FZero
    /\ LAP3 = FZero /\ LAP4 = FZero /\ LAP5 = FZero
    /\ BestLap = <<12799872, -7>> /\ BestLapNum = 0 /\ Sprit = FZero
    /\ AverageLap = FZero
    /\ sdFile = <<>>
    /\ fired = FALSE /\ firedAt = 0 /\ prevFiredAt = 0
    /\ handed = <<>> /\ speedSince = FZero
    /\ sinkBlind = TRUE
    /\ holdFires = 0

Init == Silent /\ Booted

\* One iteration of the for(;;) of setup(), main.cpp:375-383: M5.update(),
\* ReadGPS, then CountLAP.  rx is <<bytes, a>>: the bytes Serial2 holds when
\* ReadGPS starts and BtnA; b, c are BtnB, BtnC; ok is whether SD.open
\* succeeds; the first call of millis() returns a value of T, the next ones
\* d2 and d3 ms more.
Cycle(T, JJ, RX, BB, CC, OK) ==
    \E rx \in RX, b \in BB :
    \E dec \in {Drain(Decoder, rx[1])} :
    \E r \in {ReadGPS(Readings, dec.gps, rx[2], b)} :
    \E ms \in T, d2 \in JJ, d3 \in JJ, c \in CC :
    \E fire \in {FireCond(Rearm(LAPCOUNTNOW, r.distanceToMeter0, r.LAPRAD, c),
                          r.distanceToMeter0, r.LAPRAD, c, ms, BeforeTime)} :
    \E ok \in OK :
    LET dist  == r.distanceToMeter0
        s0    == [Core EXCEPT !.TopSpeed = r.TopSpeed]
        wrote == fire /\ ClosesLap(LapCount)
        sink  == [o \in BOOLEAN |-> CountLAP(s0, ms, d2, d3, dist, r.LAPRAD, c, o)]
    IN  \E s1 \in {sink[ok]} :
        /\ LapCount < MaxFires
        /\ stream' = rx[1]
        /\ pos' = Len(rx[1])
        /\ buf' = dec.buf
        /\ gps' = dec.gps
        /\ ret' = dec.ret
        /\ lineLen' = dec.lineLen
        /\ last' = dec.last
        /\ millis' = LastRead(fire, LapCount, ms, d2, d3)
        /\ BtnA' = rx[2]
        /\ BtnB' = b
        /\ BtnC' = c
        /\ YEAR' = r.YEAR
        /\ MONTH' = r.MONTH
        /\ DAY' = r.DAY
        /\ HOUR' = r.HOUR
        /\ MINUTE' = r.MINUTE
        /\ SECOND' = r.SECOND
        /\ LAT0' = r.LAT0
        /\ LONG0' = r.LONG0
        /\ KMPH' = r.KMPH
        /\ distanceToMeter0' = dist
        /\ LAPRAD' = r.LAPRAD
        /\ LAPRADchange' = r.LAPRADchange
        /\ LAPCOUNTNOW' = s1.LAPCOUNTNOW
        /\ LapCount' = s1.LapCount
        /\ BeforeTime' = s1.BeforeTime
        /\ LAP' = s1.History[1]
        /\ LAP1' = s1.History[2]
        /\ LAP2' = s1.History[3]
        /\ LAP3' = s1.History[4]
        /\ LAP4' = s1.History[5]
        /\ LAP5' = s1.History[6]
        /\ BestLap' = s1.BestLap
        /\ BestLapNum' = s1.BestLapNum
        /\ Sprit' = s1.Sprit
        /\ AverageLap' = s1.AverageLap
        /\ TopSpeed' = s1.TopSpeed
        /\ sdFile' = IF wrote /\ SinkOpen(ok)
                     THEN Append(sdFile,
                                 <<LapIndex(LapCount), s1.History[1], r.TopSpeed,
                                   <<r.YEAR, r.MONTH, r.DAY,
                                     r.HOUR, r.MINUTE, r.SECOND>>>>)
                     ELSE sdFile
        /\ fired' = fire
        /\ firedAt' = IF fire THEN ms ELSE firedAt
        /\ prevFiredAt' = IF fire THEN firedAt ELSE prevFiredAt
        /\ handed' = IF wrote
                     THEN Append(handed, <<LapIndex(LapCount), s1.History[1]>>)
                     ELSE handed
        /\ speedSince' = IF fire THEN FZero
                         ELSE IF FLt(speedSince, r.KMPH) THEN r.KMPH ELSE speedSince
        /\ sinkBlind' = (sink[TRUE] = sink[FALSE])
        /\ holdFires' = IF ~c THEN 0 ELSE holdFires + (IF fire THEN 1 ELSE 0)

\* A cycle that follows the previous one after a time in DT, while the time
\* spent in such steps is at most MX.
Tick(MX, DT, JJ, RX, BB, CC, OK) ==
    Cycle({millis + d : d \in {x \in DT : (millis % LongIdle) + x <= MX}},
          JJ, RX, BB, CC, OK)

\* A cycle that follows the previous one after the device has been left
\* running for a long time (the loop runs for the lifetime of the process).
Idle(JJ, RX, BB, CC, OK) ==
    Cycle(IF millis < LongIdle THEN {millis + LongIdle} ELSE {}, JJ, RX, BB, CC, OK)

\* No byte on Serial2, BtnA released.
Quiet == <<<<>>, FALSE>>

\* The lap detector: the receiver at the gate with BtnA pressed, then around
\* it; BtnC; both time regimes.
DetectorInputs ==
    {Quiet, <<Sentence(Gate), TRUE>>, <<Sentence(Near), FALSE>>,
     <<Sentence(Edge), FALSE>>, <<Sentence(Out), FALSE>>}
DetectorTick ==
    Tick(MaxUptime, {5000, 5001}, {0}, DetectorInputs, {FALSE}, BOOLEAN, {TRUE})
DetectorIdle == Idle({0}, {Quiet}, {FALSE}, BOOLEAN, {TRUE})
Next == DetectorTick \/ DetectorIdle
Spec == Init /\ [][Next]_vars

\* The statistics: many laps of different durations, fired by the manual
\* override and re-armed by its release, with no fix (the distance to the
\* default origin is far above every radius).
StatsPress ==
    Tick(MaxStatsUptime, {6001}, {0}, {Quiet}, {FALSE}, {TRUE}, {TRUE})
StatsRelease ==
    Tick(MaxStatsUptime, {5000}, {0}, {Quiet}, {FALSE}, {FALSE}, {TRUE})
NextStats == StatsPress \/ StatsRelease
SpecStats == Init /\ [][NextStats]_vars

\* The sink and the top speed: the speed varies while the override is
\* released; the override fires the laps, with the clock advancing between
\* the calls of millis() and SD.open succeeding or not.
SinkInputs == {<<Sentence(Slow), FALSE>>, <<Sentence(Fast), FALSE>>}
SinkPress ==
    Tick(MaxSinkUptime, {5001}, 0..Jitter, {Quiet}, {FALSE}, {TRUE}, BOOLEAN)
SinkRelease ==
    Tick(MaxSinkUptime, {5000}, {0}, SinkInputs, {FALSE}, {FALSE}, {TRUE})
NextSink == SinkPress \/ SinkRelease
SpecSink == Init /\ [][NextSink]_vars

\* The trigger radius: enough presses of BtnB to go round the cycle of radii,
\* while sentences of either type arrive.
RadiusInputs == {Quiet, <<Sentence(RmcB), FALSE>>, <<Sentence(GgaA), FALSE>>}
RadiusTick ==
    Tick(MaxRadiusUptime, {1000}, {0}, RadiusInputs, BOOLEAN, {FALSE}, {TRUE})
NextRadius == RadiusTick
SpecRadius == Init /\ [][NextRadius]_vars

\* ---------------------------------------------------------------- decoder inputs
\* How far past the capacity of _buf the over-long lines reach.
Slack == 3

\* Two accepted sentences, the scenario of an RMC without course, and the
\* forms of a number atoi and atof read.
CleanStreams ==
    { Prefix \o Sentence(RmcB), Sentence(GgaA) \o Sentence(RmcB),
      Prefix \o Sentence(Gga13), Scenario13,
      Prefix \o Sentence(RmcNoSpeed), Sentence(GgaA) \o Sentence(GgaNoSats),
      Sentence(GgaSigned) \o Sentence(RmcExp), Sentence(RmcHex) \o Sentence(RmcNan) }

\* Lines of each rejection path of parseLine, parseRMC and parseGGA.
RejectedStreams ==
    { Prefix \o l \o <<"\r", "\n">> :
        l \in { Tail(Framed(RmcB)),
                <<"$">> \o RmcB,
                Chars("$*00"),
                <<"$">> \o RmcB \o <<"*">>,
                <<"$">> \o RmcB \o <<"*", "6">>,
                <<"$">> \o RmcB \o Chars("*61"),
                Framed(Chars("GPGSV,3,1,11,03,03,111,00,04,15,270,00")),
                Framed(Chars("RM,123900,A,3522.1920,N,13932.1920,E,0,0,230394")),
                Framed(Chars("GPRMC,123900,A,3522.1920,N,13932.1920,E,022.4,084.4")),
                Framed(Chars("GPGGA,123900,3522.1920,N,13932.1920,E,1,08,0.9")),
                Framed(Chars("GPRMC,123900,V,3522.1920,N,13932.1920,E,022.4,084.4,230394,003.1,W")) } }

\* The characters a corrupted sentence gets in place of one of its own.
Replacements == {"$", "*", ",", "\r", "\n", "Z", "f"}

\* The positions of Framed(body) inside the checksummed span, and those of the
\* two checksum digits.
Corruptible(body) == (2..(Len(body) + 1)) \cup {Len(body) + 3, Len(body) + 4}

\* Sentences with one character replaced by another one.
Corrupted(body) ==
    { Replace(Sentence(body), i, r) :
        <<i, r>> \in { p \in Corruptible(body) \X Replacements :
                         Sentence(body)[p[1]] # p[2] } }

CorruptedStreams ==
    { Prefix \o l : l \in Corrupted(RmcB) \cup Corrupted(Gga13) }

\* RmcB with one more field of k characters, so that the line up to its
\* newline has Len(RmcB) + k + 5 characters.
LongBody(k) == Framed(RmcB \o <<",">> \o Pad("X", k)) \o <<"\r", "\n">>

\* RmcB with k characters between its checksum and the newline.
LongTail(k) == Framed(RmcB) \o Pad("X", k) \o <<"\r", "\n">>

\* Lines of BufSize - 3 .. BufSize + Slack characters before the newline.
LongStreams ==
    { Prefix \o LongBody(BufSize - Len(RmcB) - 5 + d) : d \in (0 - 3)..Slack }
    \cup { Prefix \o LongTail(BufSize - Len(RmcB) - 4 + d) : d \in (0 - 3)..Slack }

Inputs == CleanStreams \cup RejectedStreams \cup CorruptedStreams \cup LongStreams

\* The bytes Serial2 will deliver, none of them read yet.
InitDecoder ==
    /\ Booted
    /\ stream \in Inputs
    /\ pos = 0 /\ buf = <<>> /\ gps = NoFix /\ ret = FALSE /\ lineLen = 0
    /\ last = NoLine

\* main.cpp:397-399: one gps.encode(Serial2.read())
Encode ==
    /\ pos < Len(stream)
    /\ \E e \in {Feed(Decoder, stream[pos + 1])} :
         /\ buf' = e.buf /\ gps' = e.gps /\ ret' = e.ret
         /\ lineLen' = e.lineLen
         /\ last' = e.last
    /\ pos' = pos + 1
    /\ UNCHANGED <<stream, cycleVars>>

NextDecoder == Encode
SpecDecoder == InitDecoder /\ [][NextDecoder]_vars

\* ---------------------------------------------------------------- claims
\* LapDetectorState.armed
Armed == ~LAPCOUNTNOW

\* The lap history, newest first.
History == <<LAP, LAP1, LAP2, LAP3, LAP4, LAP5>>

\* The statistics CountLAP maintains.
Stats == <<LAP, LAP1, LAP2, LAP3, LAP4, LAP5, BestLap, BestLapNum, Sprit, AverageLap>>

\* The value millis() returned at main.cpp:462 in the cycle that has just run.
ReadAt462 == IF fired THEN firedAt ELSE millis

\* The float sum, taken in order from 0, of the durations of the records j..k
\* handed to writeData.
RECURSIVE SumDur(_, _, _)
SumDur(h, j, k) == IF k < j THEN FZero ELSE FAdd(SumDur(h, j, k - 1), h[k][2])

\* The radii 5, 10, ..., 50 as floats.
Radii == {FromInt(5 * k) : k \in 1..10}

\* C1: once a lap has fired at time t, no lap fires at a time t' with
\* t' - t <= 10 s: whenever a lap fires, more than 10000 ms of millis() have
\* passed since the previous fire (both read at main.cpp:462).
C1_Debounce == (fired /\ LapCount >= 2) => firedAt - prevFiredAt > 10000

\* C2 as stated: at the end of a cycle, within 10 s after a fire the detector
\* is armed whatever the distance; otherwise it is not armed exactly when the
\* distance is inside the trigger radius.  Stated for the states in which a
\* lap has fired, where "the window that follows a fire" has a meaning.
C2_Original ==
    LapCount > 0 =>
        IF millis - firedAt <= 10000
        THEN Armed
        ELSE (~Armed <=> FLe(distanceToMeter0, LAPRAD))

\* C2 amended: in a cycle where the debounce has expired (more than 10 s since
\* the trigger timestamp, as CountLAP measures it) and the distance is not 0,
\* the detector ends not armed exactly when the distance is at or inside the
\* radius or the override is held; with distance 0 it ends not armed exactly
\* when it was not armed or the override is held.  While the debounce has not
\* expired nothing forces the detector armed: it ends not armed exactly when
\* it was not armed and the cycle is not one with the distance at or beyond
\* the radius and the override released.  The cycle of a fire ends not armed.
C2_ArmedRule ==
    [][ LET over == DebounceOver(ReadAt462', BeforeTime)
        IN  /\ (over /\ distanceToMeter0' # FZero)
                => (LAPCOUNTNOW' <=> (FLe(distanceToMeter0', LAPRAD') \/ BtnC'))
            /\ (over /\ distanceToMeter0' = FZero)
                => (LAPCOUNTNOW' <=> (LAPCOUNTNOW \/ BtnC'))
            /\ ~over
                => (LAPCOUNTNOW' <=>
                      (LAPCOUNTNOW /\ ~(FLe(LAPRAD', distanceToMeter0') /\ ~BtnC')))
            /\ fired' => LAPCOUNTNOW' ]_vars

\* More than 10 s after a fire the detector is still not armed, the receiver
\* having stayed inside the radius, away from the origin.
C2_Witness ==
    /\ ~fired /\ LapCount >= 1 /\ LAPCOUNTNOW /\ ~BtnC
    /\ DebounceOver(millis, BeforeTime)
    /\ distanceToMeter0 # FZero /\ FLt(distanceToMeter0, LAPRAD)

\* C3 as stated: a cycle whose distance is exactly 0 fires no lap and leaves
\* lap count, armed flag, trigger timestamp and statistics as they were,
\* whatever else is sampled in it.
C3_Original ==
    [][ distanceToMeter0' = FZero
        => (~fired' /\ UNCHANGED <<LapCount, LAPCOUNTNOW, BeforeTime, Stats>>) ]_vars

\* C3 amended: the same, for the cycles in which the manual override is
\* sampled released.
C3_ZeroNeverFires ==
    [][ (distanceToMeter0' = FZero /\ ~BtnC')
        => (~fired' /\ UNCHANGED <<LapCount, LAPCOUNTNOW, BeforeTime, Stats>>) ]_vars

\* A cycle with distance 0 (BtnA held at the gate) and the override released
\* has run while the detector was armed and the debounce had expired.
C3_Witness ==
    /\ millis > 0 /\ distanceToMeter0 = FZero /\ BtnA /\ ~BtnC
    /\ ~LAPCOUNTNOW /\ ~fired /\ DebounceOver(millis, BeforeTime)

\* C4: the first fire only sets the trigger timestamp (no record, history,
\* best, sum and average unchanged); every later fire hands exactly one record
\* to writeData, so after n >= 1 fires n-1 records were handed over, with the
\* indices 1, 2, ..., n-1 in that order.
C4_Records ==
    [][ /\ fired' => LapCount' = LapCount + 1
        /\ ~fired' => (LapCount' = LapCount /\ handed' = handed)
        /\ (fired' /\ LapCount = 0)
            => (UNCHANGED <<Stats, handed, sdFile>> /\ BeforeTime' = F32(millis'))
        /\ (fired' /\ LapCount > 0) => Len(handed') = Len(handed) + 1
        /\ Len(handed') = (IF LapCount' = 0 THEN 0 ELSE LapCount' - 1)
        /\ \A i \in 1..Len(handed') : handed'[i][1] = i ]_vars

\* Three fires have handed over two records, of which at most one reached
\* the file.
C4_Witness == fired /\ LapCount = 3 /\ Len(handed) = 2 /\ Len(sdFile) < 2

\* C5: BestLap never increases; it changes only at a fire whose duration is
\* strictly less than it, becoming that duration while BestLapNum becomes the
\* 1-based index of that lap, which is the index of the record handed over;
\* any other step leaves both unchanged.
C5_Best ==
    [][ LET better == fired' /\ LapCount > 0 /\ FLt(LAP', BestLap)
        IN  /\ FLe(BestLap', BestLap)
            /\ better => /\ BestLap' = LAP'
                         /\ BestLapNum' = LapCount
                         /\ BestLapNum' = handed'[Len(handed')][1]
            /\ ~better => UNCHANGED <<BestLap, BestLapNum>> ]_vars

\* A lap as long as the best one was closed and the best index kept.
C5_Witness == fired /\ LapCount >= 3 /\ LAP = BestLap /\ BestLapNum < LapCount - 1

\* C6 as stated: the history holds at most 5 durations, and once 6 durations
\* have been pushed the oldest of them is no longer held.
C6_Original ==
    /\ Cardinality({i \in 1..6 : History[i] # FZero}) <= 5
    /\ Len(handed) = 6 => \A i \in 1..6 : History[i] # handed[1][2]

\* C6 amended: the history (LAP, LAP1..LAP5) holds the at most 6 most recent
\* durations, newest first; the oldest is dropped when a duration is pushed
\* onto 6 held ones, so after 6 pushes all 6 are held and the 7th drops the
\* first.
C6_History ==
    \A i \in 1..6 :
        History[i] = IF i <= Len(handed) THEN handed[Len(handed) + 1 - i][2] ELSE FZero

\* Seven durations were pushed: the second is the oldest one held.
C6_Witness == Len(handed) = 7 /\ LAP5 = handed[2][2] /\ handed[1][2] # handed[2][2]

\* C7 as stated: the first completed lap's duration is not in the running sum
\* and in no average: the sum is that of the durations from the second on, and
\* an average is that sum over the lap count, a divisor that differs from the
\* number of durations in the sum.
C7_Original ==
    Len(handed) >= 1 =>
        /\ Sprit = SumDur(handed, 2, Len(handed))
        /\ AverageLap # FZero
            => AverageLap = FDivInt(SumDur(handed, 2, Len(handed)), Len(handed))

\* C7 amended: the running sum is the float sum of the durations of all
\* completed laps, the first included, and every value the average takes is
\* that sum over a divisor equal to the number of durations in it.
C7_SumHasFirstLap ==
    /\ Sprit = SumDur(handed, 1, Len(handed))
    /\ AverageLap # FZero
        => AverageLap = FDivInt(SumDur(handed, 1, Len(handed)), Len(handed))

\* An average over three laps, the first among them.
C7_Witness ==
    /\ Len(handed) = 3
    /\ AverageLap
         = FDivInt(FAdd(FAdd(handed[1][2], handed[2][2]), handed[3][2]), 3)

\* C8: the average keeps its initial value until more than one lap has
\* completed; the fire that completes the first lap adds its duration to the
\* sum and leaves the average; every later fire adds its duration to the sum
\* and sets the average to the sum over the number of laps completed, the one
\* just closed included.
C8_Average ==
    [][ /\ (fired' /\ LapCount = 1)
            => (Sprit' = FAdd(Sprit, LAP') /\ AverageLap' = AverageLap)
        /\ (fired' /\ LapCount > 1)
            => /\ Sprit' = FAdd(Sprit, LAP')
               /\ AverageLap' = FDivInt(Sprit', Len(handed'))
        /\ ~fired' => UNCHANGED <<Sprit, AverageLap>>
        /\ Len(handed') <= 1 => AverageLap' = FZero ]_vars

\* The fire that completes the third lap has set the average.
C8_Witness ==
    /\ fired /\ LapCount = 4
    /\ Sprit = FAdd(FAdd(LAP2, LAP1), LAP)
    /\ AverageLap = FDivInt(Sprit, 3) /\ AverageLap # FZero

\* C9: at the end of every cycle TopSpeed is the greatest speed sampled since
\* the most recent fire, and it is 0 at the end of a cycle in which a lap
\* fired, the first fire included.
C9_TopSpeed == millis > 0 => (TopSpeed = speedSince /\ (fired => TopSpeed = FZero))

\* C10: a fire leaves the same core state whether the file can be opened or
\* not, and a record is written only in the cycle of its own fire.
C10_SinkBlind ==
    [][ /\ sinkBlind'
        /\ sdFile' # sdFile
            => (fired' /\ Len(sdFile') = Len(sdFile) + 1
                /\ sdFile'[Len(sdFile')][1] = LapCount) ]_vars

\* C11: the radius is always one of 5, 10, ..., 50; it advances by one step
\* (50 wraps to 5) in a cycle in which BtnB is sampled held after having been
\* sampled released in the previous cycle (or never held), and is unchanged in
\* every other cycle, in particular while BtnB stays held.
C11_Radius ==
    [][ LET edge == BtnB' /\ ~BtnB
        IN  /\ LAPRAD' \in Radii
            /\ edge => LAPRAD' = (IF LAPRAD = Fifty THEN Five ELSE FAdd(LAPRAD, Five))
            /\ ~edge => LAPRAD' = LAPRAD ]_vars

\* The radius has wrapped from 50 to 5 and BtnB is still held, one cycle after
\* the press.
C11_Witness == millis >= 20000 /\ LAPRAD = Five /\ BtnB /\ LAPRADchange

\* C19: a lap fires only in a cycle that begins armed; a cycle that begins in
\* cooldown may become armed but fires no lap, also when the distance equals
\* the trigger radius.
C19_FiresOnlyFromArmed == [][ fired' => ~LAPCOUNTNOW ]_vars

\* C20: while the manual override is sampled held in consecutive cycles at most
\* one lap fires; and once not armed, the detector stays not armed through
\* every cycle except one in which the override is sampled released and the
\* distance is at or beyond the radius.
C20_HeldOverride ==
    [][ /\ holdFires' <= 1
        /\ (LAPCOUNTNOW /\ (~LAPCOUNTNOW' \/ fired'))
            => (~BtnC' /\ FLe(LAPRAD', distanceToMeter0')) ]_vars

\* The override has been held for more than 10 s since the lap it fired, with
\* the distance beyond the radius, and no second lap has fired.
C20_Witness ==
    /\ BtnC /\ holdFires = 1 /\ ~fired /\ LAPCOUNTNOW
    /\ FLt(LAPRAD, distanceToMeter0) /\ DebounceOver(millis, BeforeTime)

\* ---------------------------------------------------------------- claims on the decoder
\* a and b, each <<m, k>>, are the same finite number
DecEq(a, b) ==
    IsFinite(a) /\ IsFinite(b) /\ a[1] * Pow10(b[2]) = b[1] * Pow10(a[2])

IsHexDigit(ch) ==
    LET x == Code(ch)
    IN  (x >= 48 /\ x <= 57) \/ (x >= 65 /\ x <= 70) \/ (x >= 97 /\ x <= 102)

\* The text given to parseLine without its newline.
TextOf(l) ==
    IF l # <<>> /\ l[Len(l)] = "\n" THEN SubSeq(l, 1, Len(l) - 1) ELSE l

\* The last three characters of the sentence type, <<>> if it is shorter.
TypeSuffix(f) ==
    IF Len(f[1]) < 3 THEN <<>> ELSE SubSeq(f[1], Len(f[1]) - 2, Len(f[1]))

\* C12: a terminated line that does not start with '$', has no '*' or an
\* empty body, a missing, short or mismatching checksum, an unrecognised type
\* suffix, fewer than 10 fields, or is an RMC whose status is not 'A', leaves
\* every member of Fix as it was.  The claim's words are taken as they stand:
\* a checksum is two hexadecimal digits after '*', and a field is what lies
\* between two consecutive commas, empty or not.
C12_RejectedNoOp ==
    [][ (ret' /\ pos' = pos + 1) =>
          \A line \in {TextOf(last'.text)} :
          \A ast \in {StarAt(line)} :
          \A body \in {SubSeq(line, 2, ast - 1)} :
          \A commas \in {{i \in 1..Len(body) : body[i] = ","}} :
          \A n \in {Cardinality(commas) + 1} :
          \A f \in {[k \in 1..n |->
                       LET lo == {i \in commas : Cardinality({j \in commas : j < i}) = k - 2}
                           hi == {i \in commas : Cardinality({j \in commas : j < i}) = k - 1}
                       IN  SubSeq(body,
                                  IF lo = {} THEN 1 ELSE (CHOOSE i \in lo : TRUE) + 1,
                                  IF hi = {} THEN Len(body) ELSE (CHOOSE i \in hi : TRUE) - 1)]} :
          LET sumOk  == /\ ast + 2 <= Len(line)
                        /\ IsHexDigit(line[ast + 1]) /\ IsHexDigit(line[ast + 2])
                        /\ 16 * HexVal(line[ast + 1]) + HexVal(line[ast + 2])
                             = Checksum(body)
              listed == \/ line = <<>> \/ line[1] # "$"
                        \/ ast = 0 \/ ast = 2
                        \/ ~sumOk
                        \/ TypeSuffix(f) \notin {Chars("RMC"), Chars("GGA")}
                        \/ n < 10
                        \/ TypeSuffix(f) = Chars("RMC")
                             /\ (f[3] = <<>> \/ f[3][1] # "A")
          IN  listed => gps' = gps ]_vars

\* C13: after the RMC with an empty course field and the GGA that follows it,
\* speed is 18.52 km/h, the date is 10 Feb 2000, satellites is 8 and altitude
\* is 15.2 m.
C13_EmptyFieldKeepsIndex ==
    (pos = Len(stream) /\ stream = Scenario13) =>
        /\ DecEq(gps.kmph, <<1852, 2>>)
        /\ gps.year = 2000 /\ gps.month = 2 /\ gps.day = 10
        /\ gps.satellites = 8 /\ DecEq(gps.meters, <<152, 1>>)

\* C14: a terminated line updates Fix only if '*' is followed by two
\* hexadecimal digits whose value is the XOR of the bytes between '$' and '*'.
C14_Checksum ==
    [][ (ret' /\ pos' = pos + 1 /\ gps' # gps) =>
          LET line == TextOf(last'.text)
              ast  == StarAt(line)
          IN  /\ line # <<>> /\ line[1] = "$"
              /\ ast > 0 /\ ast + 2 <= Len(line)
              /\ IsHexDigit(line[ast + 1]) /\ IsHexDigit(line[ast + 2])
              /\ 16 * HexVal(line[ast + 1]) + HexVal(line[ast + 2])
                   = Checksum(SubSeq(line, 2, ast - 1)) ]_vars

\* C15: a sentence with one character of its checksummed span, or one of its
\* two checksum digits, replaced by another character leaves Fix unchanged.
C15_CorruptionDetected ==
    [][ (stream \in CorruptedStreams /\ pos >= Len(Prefix)) => gps' = gps ]_vars

\* A line that began with '$' and lost a character other than its newline.
OverLong(l) == l.len >= BufSize /\ l.text # <<>> /\ l.text[1] = "$"

\* The buffered text ends before the second checksum digit.
CutShort(l) == StarAt(l.text) = 0 \/ StarAt(l.text) > BufSize - 3

\* C16 (as stated): a line longer than the buffer leaves Fix unchanged,
\* wherever in the line the capacity was exceeded.
C16_Original ==
    [][ (ret' /\ pos' = pos + 1 /\ OverLong(last')) => gps' = gps ]_vars

\* C16 (amended): a line longer than the buffer leaves Fix unchanged when the
\* capacity was exceeded inside the body or inside the checksum; when it was
\* exceeded after the two checksum digits, the line has the effect of the same
\* line ended right after them.
C16_Truncated ==
    [][ (ret' /\ pos' = pos + 1 /\ OverLong(last')) =>
          LET t == last'.text
          IN  IF CutShort(last') THEN gps' = gps
              ELSE gps' = parseLine(gps, SubSeq(t, 1, StarAt(t) + 2) \o <<"\n">>) ]_vars

\* An over-long line cut before the end of its checksum has been parsed after
\* an accepted sentence, and Fix is what that sentence left.
C16_Witness ==
    /\ ret /\ OverLong(last) /\ CutShort(last)
    /\ last.from # NoFix /\ gps = last.from

\* C17: an accepted sentence (one that is none of the lines C12 lists) gives
\* Fix the values of the fields it carries, a field being what lies between
\* two consecutive commas, and leaves a member whose field is empty, and every
\* member it has no field for, as it was.
C17_CarriedOnly ==
    [][ (ret' /\ pos' = pos + 1) =>
          \A line \in {TextOf(last'.text)} :
          \A ast \in {StarAt(line)} :
          \A body \in {SubSeq(line, 2, ast - 1)} :
          \A commas \in {{i \in 1..Len(body) : body[i] = ","}} :
          \A n \in {Cardinality(commas) + 1} :
          \A f \in {[k \in 1..n |->
                       LET lo == {i \in commas : Cardinality({j \in commas : j < i}) = k - 2}
                           hi == {i \in commas : Cardinality({j \in commas : j < i}) = k - 1}
                       IN  SubSeq(body,
                                  IF lo = {} THEN 1 ELSE (CHOOSE i \in lo : TRUE) + 1,
                                  IF hi = {} THEN Len(body) ELSE (CHOOSE i \in hi : TRUE) - 1)]} :
          LET sumOk  == /\ ast + 2 <= Len(line)
                        /\ IsHexDigit(line[ast + 1]) /\ IsHexDigit(line[ast + 2])
                        /\ 16 * HexVal(line[ast + 1]) + HexVal(line[ast + 2])
                             = Checksum(body)
              accepted == /\ line # <<>> /\ line[1] = "$"
                          /\ ast > 2
                          /\ sumOk
                          /\ TypeSuffix(f) \in {Chars("RMC"), Chars("GGA")}
                          /\ n >= 10
                          /\ TypeSuffix(f) = Chars("RMC")
                               => (f[3] # <<>> /\ f[3][1] = "A")
              rmc    == parseRMC(gps, f)
              carried == IF TypeSuffix(f) = Chars("GGA") THEN parseGGA(gps, f)
                         ELSE IF f[8] = <<>> THEN [rmc EXCEPT !.kmph = gps.kmph]
                         ELSE rmc
          IN  accepted => gps' = carried ]_vars

\* C18: after any sequence of bytes given to encode() the buffer holds between
\* 0 and BufSize - 1 characters; a '$' leaves exactly "$" in it, a carriage
\* return changes nothing, a newline leaves it empty, and encode() returns
\* true exactly for a newline.
C18_Accumulator ==
    [][ pos' = pos + 1 =>
          LET c == stream[pos + 1]
          IN  /\ Len(buf') \in 0..(BufSize - 1)
              /\ c = "$" => buf' = <<"$">>
              /\ c = "\r" => (buf' = buf /\ gps' = gps)
              /\ c = "\n" => buf' = <<>>
              /\ ret' = (c = "\n") ]_vars

\* The buffer is full and a character of the line has been dropped.
C18_Witness == Len(buf) = BufSize - 1 /\ lineLen > Len(buf) /\ buf[1] = "$"

====
